---- MODULE Spec2Model ----
(***************************************************************************)
(* dbt-metabase: the Metabase client (sync_and_wait, models_compatible,    *)
(* export_models) and the top-level export() that drives it.               *)
(*                                                                         *)
(* Strings are sequences of one-character strings so that str.upper() and  *)
(* the f-string '{schema}.{name}' are computed, not assumed.  Opaque       *)
(* values that the code only compares (descriptions, Metabase type tags)   *)
(* are one-element sequences holding the whole text.                       *)
(***************************************************************************)
EXTENDS Integers, Sequences, FiniteSets, TLC

(* ---------------------------------------------------------------- bounds *)
\* longest model list handed to the client
MaxModels == 2
\* seconds one models_compatible() round trip may take on the wall clock
MaxCheckSecs == 1
\* seconds time.sleep() may overshoot the requested period
MaxOversleep == 1
\* how many times export_models() is run in a row
MaxRuns == 2

(* --------------------------------------------------------------- strings *)
None == <<"<None>">>
NoAttr == <<"<no attribute>">>
NoId == 0

Lower == <<"a","b","c","d","e","f","g","h","i","j","k","l","m",
           "n","o","p","q","r","s","t","u","v","w","x","y","z">>
Caps  == <<"A","B","C","D","E","F","G","H","I","J","K","L","M",
           "N","O","P","Q","R","S","T","U","V","W","X","Y","Z">>

UpperChar(c) ==
    IF \E i \in 1..26 : Lower[i] = c
    THEN Caps[CHOOSE i \in 1..26 : Lower[i] = c]
    ELSE c

\* str.upper()
Upper(s) == [i \in 1..Len(s) |-> UpperChar(s[i])]

\* Python truthiness of an Optional[str]
Truthy(s) == s # None /\ s # <<>>

\* f'{schema_name}.{model_name}'
LookupKey(schema_name, model_name) == schema_name \o <<".">> \o model_name

TYPE_FK == <<"type/FK">>
TYPE_PK == <<"type/PK">>
NORMAL  == <<"normal">>
PUBLIC  == <<"p","u","b","l","i","c">>

_SYNC_PERIOD_SECS == 5

(* ------------------------------------------------ the program's inputs *)
\* MetabaseColumn(name, description, special_type, visibility_type,
\*                fk_target_table, fk_target_field)
Column(name, description, special_type, visibility_type, fk_table, fk_field) ==
    [name |-> name, description |-> description,
     special_type |-> special_type, visibility_type |-> visibility_type,
     fk_target_table |-> fk_table, fk_target_field |-> fk_field]

\* MetabaseModel(name, description, columns) with the attribute `schema`
\* that the client reads; NoAttr when the instance has no such attribute.
Model(name, schema, description, columns) ==
    [name |-> name, schema |-> schema, description |-> description,
     columns |-> columns]

ColX      == Column(<<"x">>, <<"d1">>, None, None, None, None)
ColYfk    == Column(<<"Y">>, None, TYPE_FK, <<"hidden">>, <<"S",".","B">>, <<"K">>)
ColYraw   == Column(<<"Y">>, None, TYPE_FK, <<>>, <<"B">>, <<"K">>)
ColZ      == Column(<<"Z">>, <<"d1">>, None, None, None, None)
ColK      == Column(<<"K">>, <<"d2">>, None, NORMAL, None, None)

\* the models a reader may hand over, before the schema attribute is decided
CandidateModels ==
    << Model(<<"a">>, <<"s">>, <<"d1">>, <<ColX, ColYfk>>),
       Model(<<"A">>, <<"S">>, None,     <<ColZ, ColYraw, ColX>>),
       Model(<<"B">>, <<"S">>, <<"d2">>, <<ColK>>),
       Model(<<"Q">>, <<"S">>, <<"d1">>, <<ColX>>) >>

ModelKeyOf(m) == LookupKey(Upper(m.schema), Upper(m.name))

\* lists of candidates, no two with the same schema.name key
IndexLists ==
    UNION { { l \in [1..n -> 1..Len(CandidateModels)] :
                \A i, j \in 1..n :
                    i # j => ModelKeyOf(CandidateModels[l[i]])
                               # ModelKeyOf(CandidateModels[l[j]]) }
            : n \in 0..MaxModels }

WithoutSchema(m) == [m EXCEPT !.schema = NoAttr]

\* what reader.read_models() returns: every instance with a schema attribute,
\* or (DbtManifestReader, whose MetabaseModel has no such field) none with it
ModelLists ==
    { [i \in DOMAIN l |-> CandidateModels[l[i]]] : l \in IndexLists }
    \cup { [i \in DOMAIN l |-> WithoutSchema(CandidateModels[l[i]])] : l \in IndexLists }

Timeouts == {3, 5, 12}
DefaultTimeout == 30

(* ----------------------------------------------------- the live catalog *)
\* GET /api/database
Databases == << [name |-> <<"O","l","d">>, id |-> 1],
                [name |-> <<"D","w">>,     id |-> 2] >>

DatabaseArgs == { <<"d","W">>, <<"n","o">> }

Field(name, description, special_type, visibility_type, fk_id) ==
    [name |-> name, description |-> description, special_type |-> special_type,
     visibility_type |-> visibility_type, fk_target_field_id |-> fk_id]

\* tables of database 2 in the order the metadata endpoint lists them
Tables(sch, desc) ==
    << [id |-> 1, schema |-> sch,  name |-> <<"a">>, description |-> desc,
        fields |-> <<11, 12>>],
       [id |-> 2, schema |-> sch,  name |-> <<"B">>, description |-> None,
        fields |-> <<21>>],
       [id |-> 3, schema |-> None, name |-> <<"c">>, description |-> None,
        fields |-> <<>>] >>

FieldIds == {11, 12, 21}

FieldName(id) == CASE id = 11 -> <<"x">> [] id = 12 -> <<"y">> [] id = 21 -> <<"k">>

\* a freshly scanned field, or one an earlier export already described
FreshField(id)  == Field(FieldName(id), None, None, NORMAL, NoId)
KnownField(id)  ==
    CASE id = 11 -> Field(FieldName(id), <<"d1">>, None, NORMAL, NoId)
      [] id = 12 -> Field(FieldName(id), None, TYPE_FK, <<"hidden">>, 21)
      [] id = 21 -> Field(FieldName(id), <<"d2">>, TYPE_PK, NORMAL, NoId)

CatalogSchemas == { <<"S">>, <<"s">> }
SchemaArgs == { None, <<"s">> }
\* tables and fields the warehouse has but the catalog has not scanned yet
PendingChoices == { <<{}, {}>>, <<{1, 2}, {}>>, <<{}, {12}>> }

(* ------------------------------------------------------------ the state *)
VARIABLES
    pc,             \* where export() / the client is
    models,         \* the MetabaseModel list read by the reader
    database,       \* export(database=...)
    schema,         \* export(schema=...)
    sync,           \* export(sync=...)
    timeout,        \* export(sync_timeout=...)
    dbTables,       \* catalog: tables of the target database
    dbFields,       \* catalog: field id -> live field
    pendingTables,  \* catalog: table ids a schema scan has yet to reveal
    pendingFields,  \* catalog: field ids a schema scan has yet to reveal
    database_id,    \* sync_and_wait / export_models: database_id
    clock,          \* int(time.time()), counted from the start of sync_and_wait
    deadline,       \* sync_and_wait: deadline
    sync_successful,\* sync_and_wait: sync_successful, then its return value
    table_lookup,   \* export_models: table_lookup
    field_lookup,   \* export_models: field_lookup
    mi,             \* export_models: position in `for model in models`
    ci,             \* export_model: position in `for column in model.columns`
    calls,          \* catalog requests and sleeps of the current call, in order
    run,            \* how many times export_models() has been entered
    lookups,        \* keys the last models_compatible() tested for membership
    checkedAt,      \* clock at which the last models_compatible() was entered
    manifest,       \* DbtManifestReader.manifest, the loaded manifest.json
    dbt_database,   \* export(dbt_database=...)
    schemas_excludes, \* export(schemas_excludes=...), upper-cased by export()
    includes,       \* export(includes=...)
    excludes,       \* export(excludes=...)
    include_tags,   \* export(include_tags=...)
    dbt_docs_url    \* export(dbt_docs_url=...)

reader  == <<manifest, dbt_database, schemas_excludes, includes, excludes,
             include_tags, dbt_docs_url>>
inputs  == <<models, database, schema, sync, timeout, reader>>
catalog == <<dbTables, dbFields, pendingTables, pendingFields>>
waiter  == <<clock, deadline, sync_successful, lookups, checkedAt>>
exporter == <<table_lookup, field_lookup, mi, ci, run>>
vars == <<pc, inputs, catalog, database_id, waiter, exporter, calls>>

NoLookup == [k \in {} |-> None]

\* DbtManifestReader.manifest before read_models() has loaded the file
NoManifest == [nodes |-> <<>>, child_map |-> NoLookup]

\* one entry of `calls`: a request issued through MetabaseClient.api, or a sleep.
\* body: the json sent, for a GET of a field the record received.
\* m, c: the model and column (0: none) on whose behalf it was issued.
Call(op, id, body, m, c) == [op |-> op, id |-> id, body |-> body, m |-> m, c |-> c]

(* ------------------------------------------------------ catalog answers *)
\* GET /api/database/{id}/metadata?include_hidden=true
Metadata(db_id) ==
    IF db_id # 2 THEN <<>>
    ELSE LET Scanned(t) == t.id \notin pendingTables
             FieldsOf(t) ==
                 LET ScannedF(id) == id \notin pendingFields
                     ids == SelectSeq(t.fields, ScannedF)
                 IN  [i \in 1..Len(ids) |-> [id |-> ids[i]] @@ dbFields[ids[i]]]
             vis == SelectSeq(dbTables, Scanned)
         IN  [i \in 1..Len(vis) |-> [vis[i] EXCEPT !.fields = FieldsOf(vis[i])]]

\* variant: the names are compared as given
find_database_id_exact(name) ==
    LET hits == { i \in 1..Len(Databases) : Databases[i].name = name }
    IN  IF hits = {} THEN NoId
        ELSE Databases[CHOOSE i \in hits : \A j \in hits : i <= j].id

\* find_database_id: first database whose upper-cased name matches, else None
find_database_id(name) ==
    LET hits == { i \in 1..Len(Databases) : Upper(Databases[i].name) = Upper(name) }
    IN  IF hits = {} THEN NoId
        ELSE Databases[CHOOSE i \in hits : \A j \in hits : i <= j].id

\* 'public' if table['schema'] is None else table['schema']
TableSchema(t) == IF t.schema = None THEN PUBLIC ELSE t.schema

\* f'{table_schema}.{table_name}' with table_name = table['name'].upper()
TableKey(t) == LookupKey(TableSchema(t), Upper(t.name))

\* the last element of seq whose Key is k (a later dict assignment wins)
LastWith(seq, Key(_), k) ==
    seq[CHOOSE i \in 1..Len(seq) :
            /\ Key(seq[i]) = k
            /\ \A j \in (i+1)..Len(seq) : Key(seq[j]) # k]

\* build_metadata_lookups: <<table_lookup, field_lookup>>
build_metadata_lookups(metadata, sch, schemas_to_exclude) ==
    LET excluded == { Upper(x) : x \in schemas_to_exclude }
        Keep(t) ==
            /\ Truthy(sch) => Upper(TableSchema(t)) = Upper(sch)
            /\ schemas_to_exclude # {} => Upper(TableSchema(t)) \notin excluded
        kept == SelectSeq(metadata, Keep)
        keys == { TableKey(kept[i]) : i \in 1..Len(kept) }
        FieldKey(f) == Upper(f.name)
        FieldsByName(t) ==
            [n \in { FieldKey(t.fields[i]) : i \in 1..Len(t.fields) }
                |-> LastWith(t.fields, FieldKey, n)]
    IN  << [k \in keys |-> LastWith(kept, TableKey, k)],
           [k \in keys |-> FieldsByName(LastWith(kept, TableKey, k))] >>

(* ---------------------------------------------------- models_compatible *)
\* variant: `are_models_compatible = column_name in table_lookup`, so the
\* last column tested decides
RECURSIVE CheckColumns_lastWins(_, _, _, _, _)
CheckColumns_lastWins(columns, j, key, fields, acc) ==
    IF j > Len(columns) THEN acc
    ELSE LET column_name == Upper(columns[j].name)
             seen == acc.seen \cup { <<key, column_name>> }
         IN  CheckColumns_lastWins(columns, j + 1, key, fields,
                 [ok |-> column_name \in DOMAIN fields, seen |-> seen])

\* the inner `for column in model.columns` of models_compatible
RECURSIVE CheckColumns(_, _, _, _, _)
CheckColumns(columns, j, key, fields, acc) ==
    IF j > Len(columns) THEN acc
    ELSE LET column_name == Upper(columns[j].name)
             seen == acc.seen \cup { <<key, column_name>> }
         IN  CheckColumns(columns, j + 1, key, fields,
                 IF column_name \notin DOMAIN fields
                 THEN [ok |-> FALSE, seen |-> seen]
                 ELSE [ok |-> acc.ok, seen |-> seen])

\* the outer `for model in models`; acc.ok is are_models_compatible and
\* acc.seen the membership tests made so far
RECURSIVE CheckModels(_, _, _, _)
CheckModels(ms, i, flookup, acc) ==
    IF i > Len(ms) THEN acc
    ELSE LET lookup_key == LookupKey(Upper(ms[i].schema), Upper(ms[i].name))
             seen == acc.seen \cup { <<lookup_key>> }
         IN  CheckModels(ms, i + 1, flookup,
                 IF lookup_key \notin DOMAIN flookup
                 THEN [ok |-> FALSE, seen |-> seen]
                 ELSE CheckColumns(ms[i].columns, 1, lookup_key,
                                   flookup[lookup_key],
                                   [ok |-> acc.ok, seen |-> seen]))

\* models_compatible(database_id, schema, models) on the metadata it fetched
models_compatible(metadata, sch, ms) ==
    CheckModels(ms, 1, build_metadata_lookups(metadata, sch, {})[2],
                [ok |-> TRUE, seen |-> {}])

\* model.schema raises AttributeError on an instance without the attribute
RaisesAttributeError(ms) == ms # <<>> /\ ms[1].schema = NoAttr

(* ----------------------------------------------------------------- Init *)
Init ==
    /\ pc = "export"
    /\ models \in ModelLists
    /\ database \in DatabaseArgs
    /\ schema \in SchemaArgs
    /\ sync \in BOOLEAN
    /\ timeout \in IF sync THEN Timeouts ELSE {DefaultTimeout}
    /\ \E sch \in CatalogSchemas, desc \in {None, <<"d1">>} :
           dbTables = Tables(sch, desc)
    /\ dbFields \in { [id \in FieldIds |-> FreshField(id)],
                      [id \in FieldIds |-> KnownField(id)] }
    /\ \E p \in PendingChoices : pendingTables = p[1] /\ pendingFields = p[2]
    /\ database_id = NoId
    /\ clock = 0
    /\ deadline = 0
    /\ sync_successful = FALSE
    /\ table_lookup = NoLookup
    /\ field_lookup = NoLookup
    /\ mi = 0
    /\ ci = 0
    /\ calls = <<>>
    /\ run = 0
    /\ lookups = {}
    /\ checkedAt = 0
    /\ manifest = NoManifest
    /\ dbt_database = database
    /\ schemas_excludes = {}
    /\ includes = {}
    /\ excludes = {}
    /\ include_tags = TRUE
    /\ dbt_docs_url = None

(* -------------------------------------------------------- sync_and_wait *)
\* variant: the guard only rejects a non-positive timeout
TimeoutTooSmall_nonpositive(t) == t <= 0

\* `if timeout < self._SYNC_PERIOD_SECS`
TimeoutTooSmall(t) == t < _SYNC_PERIOD_SECS

\* variant: the loop goes on for one period past the deadline
KeepsWaiting_onePeriodLate(ok, time_after_wait, limit) ==
    ~ ok /\ time_after_wait <= limit + _SYNC_PERIOD_SECS

\* variant: keeps polling until the deadline even when already compatible
KeepsWaiting_untilDeadline(ok, time_after_wait, limit) == time_after_wait <= limit

\* variant: compares the current time, not the time after the wait
KeepsWaiting_now(ok, time_after_wait, limit) ==
    ~ ok /\ time_after_wait - _SYNC_PERIOD_SECS <= limit

\* variant: gives up one period too early
KeepsWaiting_early(ok, time_after_wait, limit) ==
    ~ ok /\ time_after_wait + _SYNC_PERIOD_SECS <= limit

\* `if not sync_successful and time_after_wait <= deadline`: sleep, else break
KeepsWaiting(ok, time_after_wait, limit) == ~ ok /\ time_after_wait <= limit

\* export(): `if sync:` and sync_and_wait's first guard, timeout < period
SyncTimeoutTooSmall ==
    /\ pc = "export"
    /\ sync
    /\ TimeoutTooSmall(timeout)
    /\ sync_successful' = FALSE
    /\ pc' = "sync_returned"
    /\ UNCHANGED <<inputs, catalog, database_id, clock, deadline, lookups, checkedAt,
                   exporter, calls>>

\* variant: the sync_schema POST is left out
SyncStart_noPost ==
    /\ pc = "export"
    /\ sync
    /\ ~ TimeoutTooSmall(timeout)
    /\ database_id' = find_database_id(database)
    /\ calls' = Append(calls, Call("get_databases", NoId, None, 0, 0))
    /\ sync_successful' = FALSE
    /\ IF database_id' = NoId
       THEN pc' = "sync_returned" /\ UNCHANGED deadline
       ELSE pc' = "check" /\ deadline' = clock + timeout
    /\ UNCHANGED <<inputs, catalog, clock, lookups, checkedAt, exporter>>

\* sync_and_wait: find_database_id, the sync_schema POST and the deadline
SyncStart ==
    /\ pc = "export"
    /\ sync
    /\ ~ TimeoutTooSmall(timeout)
    /\ database_id' = find_database_id(database)
    /\ LET listed == Append(calls, Call("get_databases", NoId, None, 0, 0))
       IN  IF database_id' = NoId
           THEN /\ calls' = listed
                /\ sync_successful' = FALSE
                /\ pc' = "sync_returned"
                /\ UNCHANGED deadline
           ELSE /\ calls' = Append(listed, Call("post_sync_schema", database_id', None, 0, 0))
                /\ deadline' = clock + timeout
                /\ sync_successful' = FALSE
                /\ pc' = "check"
    /\ UNCHANGED <<inputs, catalog, clock, lookups, checkedAt, exporter>>

\* variant: the index of the first check is kept and reused by later checks
CheckCompatible_cached ==
    /\ pc = "check"
    /\ \E secs \in 0..MaxCheckSecs :
        LET fresh == build_metadata_lookups(Metadata(database_id), schema, {})
            idx == IF field_lookup = NoLookup THEN fresh[2] ELSE field_lookup
            result == CheckModels(models, 1, idx, [ok |-> TRUE, seen |-> {}])
            time_after_wait == (clock + secs) + _SYNC_PERIOD_SECS
        IN  /\ calls' = Append(calls, Call("get_metadata", database_id, None, 0, 0))
            /\ checkedAt' = clock
            /\ clock' = clock + secs
            /\ field_lookup' = idx
            /\ IF RaisesAttributeError(models)
               THEN /\ pc' = "raised"
                    /\ UNCHANGED <<sync_successful, lookups>>
               ELSE /\ sync_successful' = result.ok
                    /\ lookups' = result.seen
                    /\ pc' = IF KeepsWaiting(result.ok, time_after_wait, deadline)
                             THEN "sleep" ELSE "sync_returned"
    /\ UNCHANGED <<inputs, catalog, database_id, deadline, table_lookup, mi, ci, run>>

\* one pass of `while True`: models_compatible, then the decision to sleep
CheckCompatible ==
    /\ pc = "check"
    /\ \E secs \in 0..MaxCheckSecs :
        LET metadata == Metadata(database_id)
            result == models_compatible(metadata, schema, models)
            time_after_wait == (clock + secs) + _SYNC_PERIOD_SECS
        IN  /\ calls' = Append(calls, Call("get_metadata", database_id, None, 0, 0))
            /\ checkedAt' = clock
            /\ clock' = clock + secs
            /\ IF RaisesAttributeError(models)
               THEN /\ pc' = "raised"
                    /\ UNCHANGED <<sync_successful, lookups>>
               ELSE /\ sync_successful' = result.ok
                    /\ lookups' = result.seen
                    /\ pc' = IF KeepsWaiting(result.ok, time_after_wait, deadline)
                             THEN "sleep" ELSE "sync_returned"
    /\ UNCHANGED <<inputs, catalog, database_id, deadline, exporter>>

\* variant: a loop that tests the deadline after sleeping and returns unchecked
Sleep_thenGiveUp ==
    /\ pc = "sleep"
    /\ \E over \in 0..MaxOversleep :
           clock' = clock + _SYNC_PERIOD_SECS + over
    /\ calls' = Append(calls, Call("sleep", _SYNC_PERIOD_SECS, None, 0, 0))
    /\ pc' = IF clock' + _SYNC_PERIOD_SECS <= deadline THEN "check" ELSE "sync_returned"
    /\ UNCHANGED <<inputs, catalog, database_id, deadline, sync_successful, lookups,
                   checkedAt, exporter>>

\* time.sleep(self._SYNC_PERIOD_SECS)
Sleep ==
    /\ pc = "sleep"
    /\ \E over \in 0..MaxOversleep :
           clock' = clock + _SYNC_PERIOD_SECS + over
    /\ calls' = Append(calls, Call("sleep", _SYNC_PERIOD_SECS, None, 0, 0))
    /\ pc' = "check"
    /\ UNCHANGED <<inputs, catalog, database_id, deadline, sync_successful, lookups,
                   checkedAt, exporter>>

\* the catalog's schema scan, running after the sync_schema POST
CatalogScan ==
    /\ pc \in {"check", "sleep"}
    /\ \/ /\ \E t \in pendingTables : pendingTables' = pendingTables \ {t}
          /\ UNCHANGED pendingFields
       \/ /\ \E f \in pendingFields : pendingFields' = pendingFields \ {f}
          /\ UNCHANGED pendingTables
    /\ UNCHANGED <<pc, inputs, dbTables, dbFields, database_id, waiter, exporter, calls>>

(* -------------------------------------------------------- export_models *)
\* export(): sync_and_wait returned False, so export() returns
SyncFailed ==
    /\ pc = "sync_returned"
    /\ ~ sync_successful
    /\ pc' = "returned"
    /\ UNCHANGED <<inputs, catalog, database_id, waiter, exporter, calls>>

\* export_models up to its loop: find_database_id and build_metadata_lookups.
\* `calls` restarts: it holds the requests of this call of export_models.
ExportModelsEnter ==
    /\ run' = run + 1
    /\ database_id' = find_database_id(database)
    /\ clock' = 0
    /\ deadline' = 0
    /\ lookups' = {}
    /\ checkedAt' = 0
    /\ ci' = 0
    /\ LET listed == <<Call("get_databases", NoId, None, 0, 0)>>
       IN  IF database_id' = NoId
           THEN /\ calls' = listed
                /\ table_lookup' = NoLookup
                /\ field_lookup' = NoLookup
                /\ mi' = 0
                /\ pc' = "exported"
           ELSE LET built == build_metadata_lookups(Metadata(database_id'), schema, {})
                IN  /\ calls' = Append(listed,
                                  Call("get_metadata", database_id', None, 0, 0))
                    /\ table_lookup' = built[1]
                    /\ field_lookup' = built[2]
                    /\ mi' = IF models = <<>> THEN 0 ELSE 1
                    /\ pc' = IF models = <<>> THEN "exported" ELSE "export_model"
    /\ UNCHANGED <<inputs, catalog, sync_successful>>

\* variant: export() ignores what sync_and_wait returned
ExportAfterSync_unchecked ==
    /\ pc = "sync_returned"
    /\ ExportModelsEnter

\* export(): sync_and_wait returned True
ExportAfterSync ==
    /\ pc = "sync_returned"
    /\ sync_successful
    /\ ExportModelsEnter

\* export(sync=False)
ExportNoSync ==
    /\ pc = "export"
    /\ ~ sync
    /\ ExportModelsEnter

\* export_models called once more on the catalog as the last run left it
ExportAgain ==
    /\ pc = "exported"
    /\ run < MaxRuns
    /\ ExportModelsEnter

\* where `for model in models` goes after model i
AfterModel(i) == IF i < Len(models) THEN "export_model" ELSE "exported"

\* variant: a missing table ends the whole export
OnMissingTable_abort(i) == "exported"

\* export_model's `return` on a table that is not in table_lookup
OnMissingTable(i) == AfterModel(i)

\* dict.get() finding nothing
NoTable == [id |-> NoId]

\* variant: the table is looked up without regard to letter case
GetTable_foldCase(lookup, key) ==
    IF \E k \in DOMAIN lookup : Upper(k) = key
    THEN lookup[CHOOSE k \in DOMAIN lookup : Upper(k) = key]
    ELSE NoTable

\* table_lookup.get(lookup_key)
GetTable(lookup, key) == IF key \in DOMAIN lookup THEN lookup[key] ELSE NoTable

\* `if api_table['description'] != model.description`
TableDiffers(api_table, model) == api_table.description # model.description

\* PUT /api/table/{id} {'description': d}: the catalog stores what is written
PutTable(tables, id, d) ==
    [i \in 1..Len(tables) |->
        IF tables[i].id = id THEN [tables[i] EXCEPT !.description = d]
        ELSE tables[i]]

\* export_model up to its column loop
ExportModel ==
    /\ pc = "export_model"
    /\ LET model == models[mi] IN
       IF model.schema = NoAttr
       THEN /\ pc' = "raised"
            /\ UNCHANGED <<dbTables, mi, ci, calls>>
       ELSE LET schema_name == Upper(model.schema)
                model_name == Upper(model.name)
                lookup_key == LookupKey(schema_name, model_name)
                api_table == GetTable(table_lookup, lookup_key)
            IN  IF api_table = NoTable
                THEN /\ pc' = OnMissingTable(mi)
                     /\ mi' = IF mi < Len(models) THEN mi + 1 ELSE mi
                     /\ UNCHANGED <<dbTables, ci, calls>>
                ELSE LET differs == TableDiffers(api_table, model)
                     IN  /\ IF differs
                            THEN /\ calls' = Append(calls,
                                        Call("put_table", api_table.id,
                                             [description |-> model.description], mi, 0))
                                 /\ dbTables' = PutTable(dbTables, api_table.id,
                                                         model.description)
                            ELSE UNCHANGED <<calls, dbTables>>
                         /\ IF model.columns = <<>>
                            THEN /\ pc' = AfterModel(mi)
                                 /\ mi' = IF mi < Len(models) THEN mi + 1 ELSE mi
                                 /\ UNCHANGED ci
                            ELSE /\ pc' = "export_column"
                                 /\ ci' = 1
                                 /\ UNCHANGED mi
    /\ UNCHANGED <<inputs, dbFields, pendingTables, pendingFields, database_id, waiter,
                   table_lookup, field_lookup, run>>

\* variant: the FK target is never found
FkTargetFieldId_unresolved(flookup, target_table, target_field) == NoId

\* field_lookup.get(target_table, {}).get(target_field, {}).get('id')
FkTargetFieldId(flookup, target_table, target_field) ==
    IF target_table \in DOMAIN flookup
    THEN IF target_field \in DOMAIN flookup[target_table]
         THEN flookup[target_table][target_field].id
         ELSE NoId
    ELSE NoId

\* the json of the combined PUT /api/field/{field_id}
FieldBody(column, fk_target_field_id) ==
    [description |-> column.description,
     special_type |-> column.special_type,
     visibility_type |-> column.visibility_type,
     fk_target_field_id |-> fk_target_field_id]

\* variant: only the description is compared
FieldDiffers_descriptionOnly(api_field, column, fk_target_field_id) ==
    api_field.description # column.description

\* the four comparisons of export_column
FieldDiffers(api_field, column, fk_target_field_id) ==
    \/ api_field.description # column.description
    \/ api_field.special_type # column.special_type
    \/ api_field.visibility_type # column.visibility_type
    \/ api_field.fk_target_field_id # fk_target_field_id

\* variant: the visibility type is set to 'normal' whatever it was
DefaultVisibility_always(column) == [column EXCEPT !.visibility_type = NORMAL]

\* variant: `if column.visibility_type is None`, which lets '' through
DefaultVisibility_onlyNone(column) ==
    IF column.visibility_type = None
    THEN [column EXCEPT !.visibility_type = NORMAL]
    ELSE column

\* `if not column.visibility_type: column.visibility_type = 'normal'`
DefaultVisibility(column) ==
    IF ~ Truthy(column.visibility_type)
    THEN [column EXCEPT !.visibility_type = NORMAL]
    ELSE column

\* variant: the columns of a model are visited last to first
VisitedColumn_reversed(columns, pos) == Len(columns) + 1 - pos

\* the column that iteration `pos` of `for column in model.columns` visits
VisitedColumn(columns, pos) == pos

\* export_column for the ci-th column visited of model mi
ExportColumn ==
    /\ pc = "export_column"
    /\ LET model == models[mi]
           cj == VisitedColumn(model.columns, ci)
           schema_name == Upper(model.schema)
           model_name == Upper(model.name)
           table_lookup_key == LookupKey(schema_name, model_name)
           column_name == Upper(model.columns[cj].name)
           found == /\ table_lookup_key \in DOMAIN field_lookup
                    /\ column_name \in DOMAIN field_lookup[table_lookup_key]
       IN  /\ IF ~ found
              THEN UNCHANGED <<models, dbFields, calls>>
              ELSE LET field_id == field_lookup[table_lookup_key][column_name].id
                       before == model.columns[cj]
                       is_fk == before.special_type = TYPE_FK
                       fk_target_field_id ==
                           IF is_fk
                           THEN FkTargetFieldId(field_lookup, before.fk_target_table,
                                                before.fk_target_field)
                           ELSE NoId
                       marks == is_fk /\ fk_target_field_id # NoId
                       calls1 == IF marks
                                 THEN Append(calls,
                                        Call("put_field", fk_target_field_id,
                                             [special_type |-> TYPE_PK], mi, cj))
                                 ELSE calls
                       fields1 == IF marks
                                  THEN [dbFields EXCEPT
                                          ![fk_target_field_id].special_type = TYPE_PK]
                                  ELSE dbFields
                       column == DefaultVisibility(before)
                       api_field == [id |-> field_id] @@ fields1[field_id]
                       calls2 == Append(calls1,
                                        Call("get_field", field_id, api_field, mi, cj))
                       body == FieldBody(column, fk_target_field_id)
                   IN  /\ models' = [models EXCEPT ![mi].columns[cj] = column]
                       /\ IF FieldDiffers(api_field, column, fk_target_field_id)
                          THEN /\ calls' = Append(calls2,
                                      Call("put_field", field_id, body, mi, cj))
                               /\ dbFields' = [fields1 EXCEPT ![field_id] =
                                      [name |-> api_field.name] @@ body]
                          ELSE /\ calls' = calls2
                               /\ dbFields' = fields1
           /\ IF ci < Len(model.columns)
              THEN /\ ci' = ci + 1
                   /\ UNCHANGED <<pc, mi>>
              ELSE /\ ci' = 0
                   /\ pc' = AfterModel(mi)
                   /\ mi' = IF mi < Len(models) THEN mi + 1 ELSE mi
    /\ UNCHANGED <<database, schema, sync, timeout, reader, dbTables, pendingTables,
                   pendingFields, database_id, waiter, table_lookup, field_lookup, run>>

(* ------------------------------------------------- the manifest reader *)
\* NonEmptyString.__set__: '' is stored as None
NonEmptyString(value) == IF value = <<>> THEN None ELSE value

META_SPECIAL_TYPE    == "metabase.special_type"
META_VISIBILITY_TYPE == "metabase.visibility_type"

\* one entry of manifest['nodes'][...]['columns']
DbtColumn(name, description, meta) ==
    [name |-> name, description |-> description, meta |-> meta]

\* a node of manifest['nodes']; the fields of a test node come last
Node(unique_id, name, alias, resource_type, materialized, description, tags, columns, test_name, field, depends_on, column_name) ==
    [unique_id |-> unique_id, name |-> name, alias |-> alias,
     resource_type |-> resource_type, materialized |-> materialized,
     database |-> <<"D","w">>, schema |-> <<"S">>,
     description |-> description, tags |-> tags, columns |-> columns,
     test_name |-> test_name, field |-> field, depends_on |-> depends_on,
     column_name |-> column_name]

ModelNode(unique_id, name, alias, materialized, description, tags, columns) ==
    Node(unique_id, name, alias, "model", materialized, description, tags,
         columns, None, None, {}, None)

TestNode(unique_id, test_name, field, depends_on, column_name) ==
    Node(unique_id, <<"t">>, <<"t">>, "test", "test", <<>>, <<>>, <<>>,
         test_name, field, depends_on, column_name)

ORDERS    == <<"model.orders">>
CUSTOMERS == <<"model.customers">>
PEOPLE    == <<"model.people">>
REL_CUSTOMERS == <<"test.relationships_orders_cid__customers">>
REL_PEOPLE    == <<"test.relationships_orders_cid__people">>
NOT_NULL_CID  == <<"test.not_null_orders_cid">>

NoMeta == [k \in {} |-> None]

\* the `meta` dictionaries of the column orders.cid
ColumnMetas ==
    { NoMeta,
      [k \in {META_SPECIAL_TYPE} |-> <<"type/Category">>],
      [k \in {META_VISIBILITY_TYPE} |-> <<"hidden">>],
      [k \in {META_SPECIAL_TYPE, META_VISIBILITY_TYPE} |->
           IF k = META_SPECIAL_TYPE THEN <<"type/Category">> ELSE <<"hidden">>],
      [k \in {"owner"} |-> <<"x">>] }

\* the tests listed as children of the model orders, in child_map order
ChildLists ==
    { <<>>, <<REL_CUSTOMERS>>, <<NOT_NULL_CID>>, <<NOT_NULL_CID, REL_CUSTOMERS>>,
      <<REL_CUSTOMERS, REL_PEOPLE>>, <<REL_PEOPLE, REL_CUSTOMERS>> }

\* a manifest.json: orders(id, cid), customers(id), people(id) and three tests
Manifest(cid_meta, children, description, tags, materialized, alias) ==
    [ nodes |->
        << ModelNode(ORDERS, <<"o","r">>, <<"o","r">>, "table", description, tags,
               << DbtColumn(<<"i","d">>, <<>>, NoMeta),
                  DbtColumn(<<"c","i","d">>, <<"d1">>, cid_meta) >>),
           ModelNode(CUSTOMERS, <<"c","u">>, alias, materialized, <<"d2">>, <<>>,
               << DbtColumn(<<"i","d">>, <<"d2">>, NoMeta) >>),
           ModelNode(PEOPLE, <<"p">>, <<"p">>, "view", <<>>, <<>>, <<>>),
           TestNode(REL_CUSTOMERS, "relationships", <<"i","d">>,
                    {ORDERS, CUSTOMERS}, <<"c","i","d">>),
           TestNode(REL_PEOPLE, "relationships", <<"k">>,
                    {PEOPLE, ORDERS}, <<"c","i","d">>),
           TestNode(NOT_NULL_CID, "not_null", None, {ORDERS}, <<"c","i","d">>) >>,
      child_map |->
        [ id \in {ORDERS, CUSTOMERS, PEOPLE} |->
            IF id = ORDERS THEN children ELSE <<>> ] ]

Manifests ==
    { Manifest(meta, children, description, tags, materialized, alias) :
        meta \in ColumnMetas, children \in ChildLists,
        description \in { <<>>, <<"d1">> },
        tags \in { <<>>, << <<"t1">>, <<"t2">> >> },
        materialized \in { "table", "ephemeral" },
        alias \in { <<"c","u">>, <<"k","x">> } }

\* self.manifest['nodes'][node_id]
NodeById(mf, node_id) ==
    mf.nodes[CHOOSE n \in 1..Len(mf.nodes) : mf.nodes[n].unique_id = node_id]

\* ', '.join(tags)
RECURSIVE Join(_)
Join(tags) ==
    IF Len(tags) = 0 THEN <<>>
    ELSE IF Len(tags) = 1 THEN tags[1]
    ELSE tags[1] \o <<", ">> \o Join(Tail(tags))

\* _read_column: MetabaseColumn, then the relationship, then the meta fields
_read_column(column, has_relationship, relationship) ==
    LET mb_column == Column(Upper(column.name), NonEmptyString(column.description),
                            None, None, None, None)
        related ==
            IF has_relationship
            THEN [mb_column EXCEPT
                    !.special_type = TYPE_FK,
                    !.fk_target_table = Upper(relationship.fk_target_table),
                    !.fk_target_field = Upper(relationship.fk_target_field)]
            ELSE mb_column
        meta == column.meta
    IN  IF DOMAIN meta # {}
        THEN [related EXCEPT
                !.special_type = IF META_SPECIAL_TYPE \in DOMAIN meta
                                 THEN meta[META_SPECIAL_TYPE] ELSE @,
                !.visibility_type = IF META_VISIBILITY_TYPE \in DOMAIN meta
                                    THEN meta[META_VISIBILITY_TYPE] ELSE @]
        ELSE related

\* the first loop of _read_model: column name -> FK target of the last
\* relationships test among the children that names the column
RelationshipTests(mf, model) ==
    LET children == mf.child_map[model.unique_id]
        childNodes == [n \in 1..Len(children) |-> NodeById(mf, children[n])]
        IsRelationship(child) ==
            ~ (child.resource_type # "test" \/ child.test_name # "relationships")
        tests == SelectSeq(childNodes, IsRelationship)
        ColumnName(child) == child.column_name
        Target(child) ==
            LET depends_on_id == CHOOSE id \in child.depends_on \ {model.unique_id} : TRUE
            IN  [fk_target_table |-> NodeById(mf, depends_on_id).alias,
                 fk_target_field |-> child.field]
    IN  [name \in { tests[n].column_name : n \in 1..Len(tests) }
            |-> Target(LastWith(tests, ColumnName, name))]

\* the description _read_model hands to MetabaseModel
ModelDescription(model, with_tags, docs_url) ==
    LET tagged ==
            IF with_tags /\ model.tags # <<>>
            THEN (IF model.description # <<>>
                  THEN model.description \o <<"\n\n">> ELSE model.description)
                 \o <<"Tags: ">> \o Join(model.tags)
            ELSE model.description
    IN  IF Truthy(docs_url)
        THEN tagged \o <<"\n\n">> \o <<"dbt docs link: ">> \o docs_url
                    \o <<"/#!/model/">> \o model.unique_id
        ELSE tagged

\* _read_model: the MetabaseModel of one node; it gets no schema attribute
_read_model(mf, model, with_tags, docs_url) ==
    LET relationship_tests == RelationshipTests(mf, model)
        mb_columns ==
            [j \in 1..Len(model.columns) |->
                LET column == model.columns[j]
                    found == column.name \in DOMAIN relationship_tests
                IN  _read_column(column, found,
                        IF found THEN relationship_tests[column.name] ELSE None)]
    IN  Model(Upper(model.alias), NoAttr,
              NonEmptyString(ModelDescription(model, with_tags, docs_url)),
              mb_columns)

\* the `continue` conditions of read_models, negated
Retained(node, db, sch, sch_excludes, incl, excl) ==
    LET model_name == Upper(node.name)
    IN  /\ node.materialized # "ephemeral"
        /\ Upper(node.database) = Upper(db)
        /\ node.resource_type = "model"
        /\ ~ (Truthy(sch) /\ Upper(node.schema) # Upper(sch))
        /\ ~ (sch_excludes # {} /\ Upper(node.schema) \in sch_excludes)
        /\ ~ ((incl # {} /\ model_name \notin incl) \/ model_name \in excl)

\* read_models: the retained nodes in manifest order, each through _read_model
read_models(mf, db, sch, sch_excludes, incl, excl, with_tags, docs_url) ==
    LET Keep(node) == Retained(node, db, sch, sch_excludes, incl, excl)
        kept == SelectSeq(mf.nodes, Keep)
    IN  [n \in 1..Len(kept) |-> _read_model(mf, kept[n], with_tags, docs_url)]

\* export() about to call reader.read_models()
InitReader ==
    /\ pc = "read_models"
    /\ models = <<>>
    /\ manifest \in Manifests
    /\ dbt_database \in DatabaseArgs
    /\ database = dbt_database
    /\ schema \in SchemaArgs
    /\ schemas_excludes \in IF Truthy(schema) THEN { {} } ELSE { {}, {<<"T">>} }
    /\ includes \in { {}, {<<"O","R">>} }
    /\ excludes \in { {}, {<<"P">>} }
    /\ include_tags \in BOOLEAN
    /\ dbt_docs_url \in { None, <<"http://docs">> }
    /\ sync = FALSE
    /\ timeout = DefaultTimeout
    /\ dbTables = Tables(<<"S">>, None)
    /\ dbFields = [id \in FieldIds |-> FreshField(id)]
    /\ pendingTables = {}
    /\ pendingFields = {}
    /\ database_id = NoId
    /\ clock = 0
    /\ deadline = 0
    /\ sync_successful = FALSE
    /\ table_lookup = NoLookup
    /\ field_lookup = NoLookup
    /\ mi = 0
    /\ ci = 0
    /\ calls = <<>>
    /\ run = 0
    /\ lookups = {}
    /\ checkedAt = 0

\* export(): models = reader.read_models(...)
ReadModels ==
    /\ pc = "read_models"
    /\ models' = read_models(manifest, dbt_database, schema, schemas_excludes,
                             includes, excludes, include_tags, dbt_docs_url)
    /\ pc' = "export"
    /\ UNCHANGED <<database, schema, sync, timeout, reader, catalog, database_id,
                   waiter, exporter, calls>>

NextReader == ReadModels

ReaderSpec == InitReader /\ [][NextReader]_vars

Next ==
    \/ SyncTimeoutTooSmall
    \/ SyncStart
    \/ CheckCompatible
    \/ Sleep
    \/ CatalogScan
    \/ SyncFailed
    \/ ExportAfterSync
    \/ ExportNoSync
    \/ ExportAgain
    \/ ExportModel
    \/ ExportColumn

Spec == Init /\ [][Next]_vars

\* export(sync=True) on a catalog nobody has described yet (descriptions
\* play no part in sync_and_wait)
InitSync ==
    /\ Init
    /\ sync
    /\ dbTables[1].description = None
    /\ dbFields = [id \in FieldIds |-> FreshField(id)]

NextSync ==
    \/ SyncTimeoutTooSmall
    \/ SyncStart
    \/ CheckCompatible
    \/ Sleep
    \/ CatalogScan

\* models_compatible returns or raises: the loop leaves its check
CheckReturns == pc = "check" /\ pc' \in {"sleep", "sync_returned", "raised"}

\* sync_and_wait where every check comes back (its catalog call returns)
\* and every time.sleep() returns
SyncSpec == InitSync /\ [][NextSync]_vars
                     /\ WF_pc(CheckReturns) /\ WF_vars(Sleep)

(* =============================================================== claims *)
IsPut(call) == call.op \in {"put_table", "put_field"}
Puts(cs) == { i \in 1..Len(cs) : IsPut(cs[i]) }
Count(cs, op) == Cardinality({ i \in 1..Len(cs) : cs[i].op = op })
\* sync_and_wait got past both of its guards
PreconditionsPassed == sync /\ timeout >= _SYNC_PERIOD_SECS /\ database_id # NoId

\* C1: when export_models has run twice in a row with nothing else touching
\* the catalog in between, the second run has issued no PUT at all (no table
\* update, no field update, no primary-key mark on a foreign-key target).
C1_SecondRunIssuesNoPut ==
    (run = 2 /\ pc = "exported") => Puts(calls) = {}

\* C2: with sync enabled, once sync_and_wait has returned False export_models
\* is never entered and no table or field update has been issued.
C2_NoExportAfterFailedSync ==
    /\ (sync /\ pc \in {"sync_returned", "returned"} /\ ~ sync_successful)
          => (run = 0 /\ Puts(calls) = {})
    /\ pc = "returned" => (sync /\ ~ sync_successful /\ run = 0 /\ Puts(calls) = {})
    /\ (sync /\ run > 0) => sync_successful

C2_Witness ==
    /\ pc = "returned"
    /\ Count(calls, "get_metadata") > 0
    /\ models # <<>>

\* C3: sync_and_wait with a timeout below the polling period (5) returns
\* False having issued no request of any kind and having never slept.
C3_SmallTimeoutNoRequests ==
    (sync /\ timeout < 5 /\ pc # "export")
        => /\ pc \in {"sync_returned", "returned"}
           /\ ~ sync_successful
           /\ calls = <<>>
           /\ clock = 0

C3_Witness == pc = "sync_returned" /\ timeout = 3 /\ calls = <<>>

\* the field index a metadata query would yield right now
IndexNow == build_metadata_lookups(Metadata(database_id), schema, {})[2]

\* every model's key is in idx and every column of it in that table's fields
AllPresent(ms, idx) ==
    \A i \in 1..Len(ms) :
        LET k == LookupKey(Upper(ms[i].schema), Upper(ms[i].name))
        IN  /\ k \in DOMAIN idx
            /\ \A j \in 1..Len(ms[i].columns) :
                   Upper(ms[i].columns[j].name) \in DOMAIN idx[k]

\* C4: past its guards, sync_and_wait returns True exactly when its last
\* check found the catalog compatible; the first compatible check ends the
\* polling (it returns at once, no sleep, no further check); and it returns
\* False only after an incompatible check with now + period > deadline.
C4_ReturnsLastCheck ==
    /\ [] ( (pc = "sync_returned" /\ PreconditionsPassed)
              => /\ sync_successful = AllPresent(models, IndexNow)
                 /\ ~ sync_successful => clock + _SYNC_PERIOD_SECS > deadline )
    /\ [][ (pc = "check" /\ pc' # "check" /\ ~ RaisesAttributeError(models)
              /\ AllPresent(models, IndexNow))
             => (pc' = "sync_returned" /\ sync_successful') ]_vars

C4_Witness ==
    /\ pc = "sync_returned"
    /\ sync_successful
    /\ models # <<>>
    /\ Count(calls, "sleep") >= 1

\* C5: a sleep is of exactly one period and follows only an incompatible
\* check with now + period <= deadline, so one call of sync_and_wait
\* sleeps at most floor(timeout / period) times.
C5_SleepsBounded ==
    (sync /\ run = 0)
        => /\ Count(calls, "sleep") <= timeout \div _SYNC_PERIOD_SECS
           /\ \A i \in 1..Len(calls) :
                  calls[i].op = "sleep" => calls[i].id = _SYNC_PERIOD_SECS
           /\ pc = "sleep" => (~ sync_successful
                                /\ clock + _SYNC_PERIOD_SECS <= deadline)

C5_Witness ==
    /\ pc = "sync_returned"
    /\ timeout = 12
    /\ Count(calls, "sleep") = 2

\* C6 as stated: when sync_and_wait gives up (timeout 12, period 5), its final
\* check took place at or after the deadline.
C6_FinalCheckAtOrAfterDeadline ==
    (pc = "sync_returned" /\ PreconditionsPassed /\ ~ sync_successful /\ timeout = 12)
        => clock >= deadline

\* C6 (amended): when sync_and_wait gives up, its final check ended less
\* than one period before the deadline, or after it: the clock read after
\* that check is later than deadline - period.
C6_FinalCheckWithinOnePeriod ==
    (pc = "sync_returned" /\ PreconditionsPassed /\ ~ sync_successful)
        => clock > deadline - _SYNC_PERIOD_SECS

C6_Witness ==
    /\ pc = "sync_returned"
    /\ PreconditionsPassed
    /\ ~ sync_successful
    /\ timeout = 12
    /\ clock < deadline

\* what sync_and_wait did after the database listing and the sync request
SyncTail == SubSeq(calls, 3, Len(calls))

\* C7: past its guards sync_and_wait checks at least once, checks and sleeps
\* alternate (one check after every sleep), and the call ends on a check,
\* never on a sleep, even when that check was incompatible.
C7_ChecksAndSleepsAlternate ==
    (PreconditionsPassed /\ run = 0 /\ pc # "export")
        => /\ \A k \in 1..Len(SyncTail) :
                  SyncTail[k].op = IF k % 2 = 1 THEN "get_metadata" ELSE "sleep"
           /\ pc = "check" => Len(SyncTail) % 2 = 0
           /\ pc \in {"sleep", "sync_returned", "returned", "raised"}
                  => Len(SyncTail) % 2 = 1

C7_Witness ==
    /\ pc = "sync_returned"
    /\ PreconditionsPassed
    /\ ~ sync_successful
    /\ Count(calls, "sleep") >= 1

KeyOf(m) == LookupKey(Upper(m.schema), Upper(m.name))

\* C8: models_compatible returns True iff every model's upper-cased
\* schema.name key is in the field index and every column of every model
\* (upper-cased) is in that table's field set; every model is tested, also
\* after a failure, and no column of a missing table is looked up.
C8_CompatibleIffAllPresent ==
    [][ (pc = "check" /\ pc' \notin {"check", "raised"})
          => /\ sync_successful' = AllPresent(models, IndexNow)
             /\ \A i \in 1..Len(models) :
                  LET k == KeyOf(models[i])
                      cols == { <<k, Upper(models[i].columns[j].name)>> :
                                  j \in 1..Len(models[i].columns) }
                  IN  /\ <<k>> \in lookups'
                      /\ IF k \in DOMAIN IndexNow
                         THEN cols \subseteq lookups'
                         ELSE \A l \in lookups' : ~ (Len(l) = 2 /\ l[1] = k) ]_vars

C8_Witness ==
    /\ pc = "sync_returned"
    /\ PreconditionsPassed
    /\ ~ sync_successful
    /\ Len(models) = 2
    /\ KeyOf(models[1]) \notin DOMAIN IndexNow
    /\ KeyOf(models[2]) \in DOMAIN IndexNow
    /\ AllPresent(<<models[2]>>, IndexNow)
    /\ <<KeyOf(models[2]), Upper(models[2].columns[1].name)>> \in lookups

\* C9: in export_models no request of any kind (table update, field read,
\* field update, primary-key mark) is issued on behalf of a model whose
\* schema.name key is not in the catalog index.
C9_NoRequestForMissingTable ==
    run >= 1 =>
        \A n \in 1..Len(calls) :
            calls[n].m # 0 => KeyOf(models[calls[n].m]) \in DOMAIN table_lookup

C9_Witness ==
    /\ pc = "exported"
    /\ Len(models) = 2
    /\ KeyOf(models[1]) \notin DOMAIN table_lookup
    /\ models[1].columns # <<>>
    /\ \E n \in 1..Len(calls) : calls[n].m = 2

\* the FK target id export_column resolves for a column
ResolvedFk(col) ==
    IF col.special_type = TYPE_FK
         /\ col.fk_target_table \in DOMAIN field_lookup
         /\ col.fk_target_field \in DOMAIN field_lookup[col.fk_target_table]
    THEN field_lookup[col.fk_target_table][col.fk_target_field].id
    ELSE NoId

\* C10: a missing table, a missing field or an unresolvable FK target never
\* ends export_models: when it returns, every model whose table is in the
\* index has had its description compared (and updated iff different), and
\* every column of such a model whose field is in the index has been read
\* exactly once and updated iff the field read differed from the column.
C10_FailureIsolation ==
    (pc = "exported" /\ run >= 1 /\ database_id # NoId) =>
        \A i \in 1..Len(models) :
            LET k == KeyOf(models[i]) IN
            k \in DOMAIN table_lookup =>
                /\ (table_lookup[k].description # models[i].description)
                     <=> \E n \in 1..Len(calls) :
                            /\ calls[n].op = "put_table"
                            /\ calls[n].m = i
                            /\ calls[n].id = table_lookup[k].id
                            /\ calls[n].body.description = models[i].description
                /\ \A j \in 1..Len(models[i].columns) :
                     LET col == models[i].columns[j]
                         gets == { n \in 1..Len(calls) :
                                     /\ calls[n].op = "get_field"
                                     /\ calls[n].m = i /\ calls[n].c = j }
                     IN  Upper(col.name) \in DOMAIN field_lookup[k] =>
                           /\ Cardinality(gets) = 1
                           /\ \A n \in gets :
                                LET live == calls[n].body
                                    differs ==
                                      \/ live.description # col.description
                                      \/ live.special_type # col.special_type
                                      \/ live.visibility_type # col.visibility_type
                                      \/ live.fk_target_field_id # ResolvedFk(col)
                                IN  /\ calls[n].id = field_lookup[k][Upper(col.name)].id
                                    /\ differs <=>
                                         /\ n < Len(calls)
                                         /\ calls[n+1].op = "put_field"
                                         /\ calls[n+1].id = calls[n].id
                                         /\ calls[n+1].m = i /\ calls[n+1].c = j

C10_Witness ==
    /\ pc = "exported"
    /\ Len(models) = 2
    /\ KeyOf(models[1]) \notin DOMAIN table_lookup
    /\ KeyOf(models[2]) \in DOMAIN table_lookup
    /\ Len(models[2].columns) = 3
    /\ Upper(models[2].columns[1].name) \notin DOMAIN field_lookup[KeyOf(models[2])]
    /\ models[2].columns[2].special_type = TYPE_FK
    /\ ResolvedFk(models[2].columns[2]) = NoId
    /\ \E n \in 1..Len(calls) :
          calls[n].op = "put_field" /\ calls[n].m = 2 /\ calls[n].c = 3
    /\ \E n \in 1..Len(calls) : calls[n].op = "put_table" /\ calls[n].m = 2

\* a combined field update, and a primary-key mark
IsCombined(call) ==
    call.op = "put_field"
      /\ DOMAIN call.body = {"description", "special_type", "visibility_type",
                              "fk_target_field_id"}
IsPkMark(call) == call.op = "put_field" /\ DOMAIN call.body = {"special_type"}

\* C11: the update requests of export_models follow the input order: every
\* write for model i precedes every write for model i+1, a model's
\* table-description write precedes the writes for its columns, writes for
\* column j precede those for column j+1, and each write addresses exactly
\* the entity it was issued for (table i, or the field of column j).
C11_WritesFollowInputOrder ==
    run >= 1 =>
        /\ \A n1, n2 \in Puts(calls) :
             n1 < n2 =>
               \/ calls[n1].m < calls[n2].m
               \/ calls[n1].m = calls[n2].m /\ calls[n1].c <= calls[n2].c
        /\ \A n \in Puts(calls) :
             LET call == calls[n]
                 k == KeyOf(models[call.m])
             IN  /\ call.m \in 1..Len(models)
                 /\ call.op = "put_table"
                      => (call.c = 0 /\ call.id = table_lookup[k].id)
                 /\ call.op = "put_field"
                      => call.c \in 1..Len(models[call.m].columns)
                 /\ IsCombined(call)
                      => call.id = field_lookup[k][
                                     Upper(models[call.m].columns[call.c].name)].id

C11_Witness ==
    /\ pc = "exported"
    /\ \E n1, n2, n3, n4 \in Puts(calls) :
          /\ n1 < n2 /\ n2 < n3 /\ n3 < n4
          /\ calls[n1].op = "put_table" /\ calls[n1].m = 1
          /\ IsCombined(calls[n2]) /\ calls[n2].m = 1 /\ calls[n2].c = 1
          /\ IsCombined(calls[n3]) /\ calls[n3].m = 1 /\ calls[n3].c = 2
          /\ calls[n4].m = 2

\* the four values export_column wants the field of column col to have
Desired(col) ==
    [description |-> col.description,
     special_type |-> col.special_type,
     visibility_type |-> col.visibility_type,
     fk_target_field_id |-> ResolvedFk(col)]

FourKeys == {"description", "special_type", "visibility_type", "fk_target_field_id"}

\* C12: for a column whose field is in the index, the field read is followed
\* at once by exactly one combined update carrying all four of description,
\* semantic type, visibility type and resolved FK target id when at least one
\* of the four differs from the field just read, and by no update when all
\* four are equal; no combined update is issued without such a read.
C12_OneCombinedUpdateIffDiffers ==
    run >= 1 =>
        /\ \A n \in 1..Len(calls) :
             calls[n].op = "get_field" =>
               LET live == calls[n].body
                   want == Desired(models[calls[n].m].columns[calls[n].c])
                   updated ==
                       /\ n < Len(calls)
                       /\ calls[n+1].op = "put_field"
                       /\ calls[n+1].id = calls[n].id
                       /\ calls[n+1].body = want
               IN  (\E key \in FourKeys : live[key] # want[key]) <=> updated
        /\ \A n \in 1..Len(calls) :
             IsCombined(calls[n]) =>
               /\ n > 1
               /\ calls[n-1].op = "get_field"
               /\ calls[n-1].id = calls[n].id
               /\ calls[n-1].m = calls[n].m /\ calls[n-1].c = calls[n].c
               /\ Cardinality({ n2 \in 1..Len(calls) :
                      /\ IsCombined(calls[n2])
                      /\ calls[n2].m = calls[n].m /\ calls[n2].c = calls[n].c }) = 1

\* an update caused by the semantic type alone, and a read causing none
C12_Witness ==
    /\ pc = "exported"
    /\ \E n \in 1..Len(calls) :
          /\ calls[n].op = "get_field"
          /\ n < Len(calls)
          /\ IsCombined(calls[n+1])
          /\ calls[n].body.description = calls[n+1].body.description
          /\ calls[n].body.visibility_type = calls[n+1].body.visibility_type
          /\ calls[n].body.special_type # calls[n+1].body.special_type
    /\ \E n \in 1..Len(calls) :
          /\ calls[n].op = "get_field"
          /\ (n = Len(calls) \/ ~ IsCombined(calls[n+1]))

\* C13: every combined field update carries a visibility type that is
\* neither None nor empty, and a column whose visibility type is absent or
\* empty is compared and written as "normal".
C13_VisibilityNeverAbsent ==
    /\ [] ( run >= 1 =>
              \A n \in 1..Len(calls) :
                  IsCombined(calls[n]) => Truthy(calls[n].body.visibility_type) )
    /\ [][ (pc = "export_column" /\ calls' # calls) =>
             LET last == calls'[Len(calls')]
                 before == models[last.m].columns[last.c]
             IN  ~ Truthy(before.visibility_type) =>
                   /\ IsCombined(last) => last.body.visibility_type = NORMAL
                   /\ last.op = "get_field" => last.body.visibility_type = NORMAL ]_vars

C13_Witness ==
    /\ pc = "exported"
    /\ \E n \in 1..Len(calls) :
          /\ IsCombined(calls[n])
          /\ calls[n].body.visibility_type = NORMAL
          /\ calls[n-1].body.visibility_type # NORMAL

\* a table of the metadata that build_metadata_lookups keeps under `schema`
KeptTables ==
    LET md == Metadata(database_id)
    IN  { md[n] : n \in { n \in 1..Len(md) :
              Truthy(schema) => Upper(TableSchema(md[n])) = Upper(schema) } }

\* C14: table identity is case-insensitive end to end: every model carries a
\* schema and a name, every key of the catalog index is fully upper-cased,
\* and a catalog table whose schema and name equal a model's up to letter
\* case is found under the model's key, by the compatibility check as by
\* export_model.
C14_TableIdentityFoldsCase ==
    /\ \A i \in 1..Len(models) :
           models[i].schema # NoAttr /\ models[i].name # NoAttr
    /\ (pc \in {"export_model", "export_column", "exported"} /\ database_id # NoId) =>
           /\ \A k \in DOMAIN table_lookup : k = Upper(k)
           /\ \A i \in 1..Len(models) : \A t \in KeptTables :
                  ( /\ models[i].schema # NoAttr
                    /\ Upper(TableSchema(t)) = Upper(models[i].schema)
                    /\ Upper(t.name) = Upper(models[i].name) )
                  => /\ KeyOf(models[i]) \in DOMAIN table_lookup
                     /\ KeyOf(models[i]) \in DOMAIN IndexNow

NoDatabaseMatches ==
    \A i \in 1..Len(Databases) : Upper(Databases[i].name) # Upper(database)

\* C15: when no database of the catalog's list matches the given name up to
\* letter case, sync_and_wait returns False having only listed the databases
\* (no sync request, no compatibility check), and export_models returns
\* having only listed the databases (no metadata query, no write); a
\* database that does match by name is resolved to that database's id.
C15_UnresolvedDatabaseFailsFast ==
    /\ NoDatabaseMatches =>
         /\ database_id = NoId
         /\ (sync /\ ~ (timeout < _SYNC_PERIOD_SECS) /\ pc # "export") =>
               /\ pc \in {"sync_returned", "returned"}
               /\ ~ sync_successful
               /\ calls = <<Call("get_databases", NoId, None, 0, 0)>>
         /\ run >= 1 =>
               /\ pc = "exported"
               /\ calls = <<Call("get_databases", NoId, None, 0, 0)>>
               /\ table_lookup = NoLookup /\ field_lookup = NoLookup
    /\ (~ NoDatabaseMatches /\ Len(calls) >= 1 /\ pc # "export") =>
         \E i \in 1..Len(Databases) :
             /\ Upper(Databases[i].name) = Upper(database)
             /\ Databases[i].name # database
             /\ database_id = Databases[i].id

C15_Witness ==
    /\ NoDatabaseMatches
    /\ models # <<>>
    /\ \/ pc = "returned" /\ Len(calls) = 1
       \/ run = 1 /\ pc = "exported"

\* C18: a call of sync_and_wait that passes its guards issues exactly one
\* schema-sync request, for the resolved database id, right after listing
\* the databases and before the first compatibility check; polling issues
\* no further one.
C18_OneSyncRequest ==
    (PreconditionsPassed /\ run = 0 /\ pc # "export") =>
        /\ Count(calls, "post_sync_schema") = 1
        /\ Len(calls) >= 2
        /\ calls[1].op = "get_databases"
        /\ calls[2].op = "post_sync_schema"
        /\ calls[2].id = database_id
        /\ \A n \in 1..Len(calls) : calls[n].op = "get_metadata" => n > 2

C18_Witness ==
    /\ pc = "sync_returned"
    /\ run = 0
    /\ Count(calls, "post_sync_schema") = 1
    /\ Count(calls, "get_metadata") = 3

\* C19: export_models queries the catalog metadata exactly once per call,
\* right after listing the databases, and its index stays the same for all
\* models; each compatibility check of the sync loop queries the metadata
\* once more and decides on the catalog as it is at that moment, so what
\* appeared since the previous poll is seen.
C19_IndexSnapshots ==
    /\ [] ( (run >= 1 /\ database_id # NoId) =>
              /\ Count(calls, "get_metadata") = 1
              /\ calls[2].op = "get_metadata" )
    /\ [][ (pc = "export_model" \/ pc = "export_column") =>
             (table_lookup' = table_lookup /\ field_lookup' = field_lookup) ]_vars
    /\ [][ (pc = "check" /\ pc' \notin {"check", "raised"}) =>
             /\ Count(calls', "get_metadata") = Count(calls, "get_metadata") + 1
             /\ sync_successful' = AllPresent(models, IndexNow)
             /\ table_lookup' = table_lookup /\ field_lookup' = field_lookup ]_vars

\* a second poll that saw what the first one did not
C19_Witness ==
    /\ pc = "sync_returned"
    /\ sync_successful
    /\ Len(models) = 2
    /\ Count(calls, "get_metadata") = 2

\* the raw FK target strings of col are keys of the field index
RawTargetResolves(col) ==
    /\ col.fk_target_table \in DOMAIN field_lookup
    /\ col.fk_target_field \in DOMAIN field_lookup[col.fk_target_table]

PkMarksFor(i, j) ==
    { n \in 1..Len(calls) : IsPkMark(calls[n]) /\ calls[n].m = i /\ calls[n].c = j }

\* C20: for a foreign-key column whose field is in the index: if the raw
\* fk_target_table / fk_target_field strings are keys of the field index,
\* exactly one write marks the target field as primary key, right before
\* the column's field is read and compared; if they are not, no such write
\* is issued, the field is still read and compared, and a combined update
\* that follows carries an absent FK target id.
C20_PkMarkOnlyWhenResolved ==
    run >= 1 =>
        /\ \A n \in 1..Len(calls) :
             calls[n].op = "get_field" =>
               LET i == calls[n].m
                   j == calls[n].c
                   col == models[i].columns[j]
               IN  IF col.special_type = TYPE_FK /\ RawTargetResolves(col)
                   THEN /\ PkMarksFor(i, j) = {n - 1}
                        /\ calls[n-1].id =
                             field_lookup[col.fk_target_table][col.fk_target_field].id
                        /\ calls[n-1].body.special_type = TYPE_PK
                   ELSE /\ PkMarksFor(i, j) = {}
                        /\ (n < Len(calls) /\ IsCombined(calls[n+1])) =>
                               calls[n+1].body.fk_target_field_id = NoId
        /\ \A n \in 1..Len(calls) :
             IsPkMark(calls[n]) =>
               /\ n < Len(calls)
               /\ calls[n+1].op = "get_field"
               /\ calls[n+1].m = calls[n].m /\ calls[n+1].c = calls[n].c
        /\ pc = "exported" =>
             \A i \in 1..Len(models) : \A j \in 1..Len(models[i].columns) :
                 LET col == models[i].columns[j]
                     k == KeyOf(models[i])
                 IN  ( /\ col.special_type = TYPE_FK
                       /\ k \in DOMAIN table_lookup
                       /\ Upper(col.name) \in DOMAIN field_lookup[k] )
                     => \E n \in 1..Len(calls) :
                            /\ calls[n].op = "get_field"
                            /\ calls[n].m = i /\ calls[n].c = j

\* an unresolved foreign key whose column is still updated
C20_Witness ==
    /\ pc = "exported"
    /\ \E n \in 2..Len(calls) :
          /\ IsCombined(calls[n])
          /\ models[calls[n].m].columns[calls[n].c].special_type = TYPE_FK
          /\ calls[n].body.fk_target_field_id = NoId
          /\ calls[n-1].op = "get_field"
          /\ PkMarksFor(calls[n].m, calls[n].c) = {}

\* the columns the reader produced, as <<model, column>> positions
ReadColumns ==
    { <<i, j>> \in (1..Len(models)) \X (1..2) : j <= Len(models[i].columns) }

\* C16: every column the reader produced has fk_target_table and
\* fk_target_field both set or both absent, and when they are set its
\* semantic type is 'type/FK', whatever relationships tests and metabase.*
\* meta overrides the column has.
C16_FkTargetsImplyFkType ==
    pc = "export" =>
        \A p \in ReadColumns :
            LET col == models[p[1]].columns[p[2]]
            IN  /\ (col.fk_target_table = None) <=> (col.fk_target_field = None)
                /\ col.fk_target_table # None => col.special_type = TYPE_FK

\* the relationships tests among the children of node that name the column
TestsOn(node, column_name) ==
    LET children == manifest.child_map[node.unique_id]
    IN  { t \in { NodeById(manifest, children[n]) : n \in 1..Len(children) } :
            /\ t.resource_type = "test"
            /\ t.test_name = "relationships"
            /\ t.column_name = column_name
            /\ \E other \in { manifest.nodes[n].unique_id : n \in 1..Len(manifest.nodes) } :
                   other # node.unique_id /\ t.depends_on = {node.unique_id, other} }

\* C17: for a retained model with a column c: a dependent relationships
\* test on c with dependency set {this model, other model} and field
\* argument f gives c the semantic type 'type/FK' and the FK target
\* (UPPER(alias of other model), UPPER(f)); a column with no such test has
\* no FK target and no inferred semantic type.
C17_FkInference ==
    pc = "export" =>
        \A n \in 1..Len(manifest.nodes) :
            LET node == manifest.nodes[n]
            IN  \A i \in 1..Len(models) :
                  models[i].name = Upper(node.alias) =>
                    \A j \in 1..Len(node.columns) :
                        LET col == models[i].columns[j]
                            tests == TestsOn(node, node.columns[j].name)
                        IN  /\ \A t \in tests :
                                 LET other == CHOOSE id \in t.depends_on :
                                                  id # node.unique_id
                                 IN  /\ col.special_type = TYPE_FK
                                     /\ col.fk_target_table =
                                            Upper(NodeById(manifest, other).alias)
                                     /\ col.fk_target_field = Upper(t.field)
                            /\ tests = {} =>
                                 /\ col.fk_target_table = None
                                 /\ col.fk_target_field = None
                                 /\ col.special_type # TYPE_FK

\* C21: no step of sync_and_wait, models_compatible or export_models changes
\* a model or a column it was given (names, schema, descriptions, semantic
\* types, FK targets, number and order of columns), except that
\* export_column sets a visibility type that is absent (None or '') to
\* "normal" on the column it is visiting, and only when that column's field
\* is in the index.
C21_ModelsReadOnly ==
    [][ /\ Len(models') = Len(models)
        /\ \A i \in 1..Len(models) :
             LET old == models[i]
                 new == models'[i]
             IN  /\ new.name = old.name
                 /\ new.schema = old.schema
                 /\ new.description = old.description
                 /\ Len(new.columns) = Len(old.columns)
                 /\ \A j \in 1..Len(old.columns) :
                      LET oldc == old.columns[j]
                          newc == new.columns[j]
                      IN  \/ newc = oldc
                          \/ /\ pc = "export_column"
                             /\ i = mi
                             /\ KeyOf(old) \in DOMAIN field_lookup
                             /\ Upper(oldc.name) \in DOMAIN field_lookup[KeyOf(old)]
                             /\ ~ Truthy(oldc.visibility_type)
                             /\ newc = [oldc EXCEPT !.visibility_type = NORMAL] ]_vars

\* a model exported with one column left alone (no field) and two defaulted
C21_Witness ==
    /\ pc = "exported"
    /\ Len(models) >= 1
    /\ Len(models[1].columns) = 3
    /\ models[1].columns[1].visibility_type = None
    /\ models[1].columns[2].visibility_type = NORMAL
    /\ models[1].columns[3].visibility_type = NORMAL
    /\ \E n \in 1..Len(calls) : calls[n].op = "get_field" /\ calls[n].m = 1

\* C22: sync_and_wait terminates: when every check's catalog call returns
\* and every sleep returns with the clock advanced by at least one period, a
\* polling loop that has started is left after at most timeout / period + 1
\* checks, also when the catalog never becomes compatible; it is left by
\* returning True (compatible) or False (timed out), or, for models without
\* a schema attribute, by the AttributeError of the first check.
C22_SyncTerminates ==
    /\ [] ( (sync /\ run = 0) =>
              Count(calls, "get_metadata") <= (timeout \div _SYNC_PERIOD_SECS) + 1 )
    /\ (pc = "check" /\ ~ RaisesAttributeError(models)) ~> (pc = "sync_returned")
    /\ (pc = "check") ~> (pc \in {"sync_returned", "raised"})

\* a timed-out call on a catalog whose scan never completed
C22_Witness ==
    /\ pc = "sync_returned"
    /\ ~ sync_successful
    /\ pendingTables # {}
    /\ Count(calls, "sleep") = 2
    /\ Count(calls, "get_metadata") = 3

\* the live table with the given id
LiveTable(id) == dbTables[CHOOSE n \in 1..Len(dbTables) : dbTables[n].id = id]

\* C23: when export_models has returned (nobody else having changed the
\* catalog during the run), every model whose table is in the index has a
\* live table description equal to the model's description, and every
\* column whose field is in the index has a live description, semantic
\* type, visibility type and FK target id equal to the values wanted for
\* that column.
C23_ExportConverges ==
    (pc = "exported" /\ database_id # NoId) =>
        \A i \in 1..Len(models) :
            LET model == models[i]
                k == KeyOf(model)
            IN  k \in DOMAIN table_lookup =>
                  /\ LiveTable(table_lookup[k].id).description = model.description
                  /\ \A j \in 1..Len(model.columns) :
                       LET col == model.columns[j]
                           name == Upper(col.name)
                       IN  name \in DOMAIN field_lookup[k] =>
                             LET live == dbFields[field_lookup[k][name].id]
                                 want == Desired(col)
                             IN  \A key \in FourKeys : live[key] = want[key]

====
